---- MODULE Spec2Model ----
(***************************************************************************)
(* The mount table of filesystem.c: an array of MAX_MOUNTS slots and a     *)
(* count, searched newest first; each mount is a directory or a tar        *)
(* archive.  Strings are tuples of character codes, so that strcmp,        *)
(* strlen, concat_path and hashstr are computed as the C code computes     *)
(* them.                                                                   *)
(***************************************************************************)
EXTENDS Integers, Sequences, FiniteSets, TLC

MAX_MOUNTS == 8
MAX_PATH == 256

FILESYSTEM_TNONE == 0
FILESYSTEM_TREG == 1
FILESYSTEM_TDIR == 2

\* filesystem.h: the two result codes of the module
FILESYSTEM_ESUCCESS == 0
FILESYSTEM_EFAILURE == -1

\* microtar.h: entry types and the record size of the archive format
MTAR_TREG == 48
MTAR_TDIR == 53
MTAR_BLOCK == 512

\* bounds of the model
MaxCalls == 5
MaxCallsFull == 3
MaxCallsTar == 4
MaxCallsDir == 4
MaxRoot == 4

----------------------------------------------------------------------------
(* Character strings *)

SLASH == 47
FOOTER == 8

StrA == <<97>>
StrB == <<98>>
StrC == <<99>>
StrN == <<110>>
StrX == <<120>>
StrD == <<100>>
StrZ == <<122>>
StrE == <<101>>
StrF == <<102>>
StrG == <<103>>
StrH == <<104>>
\* "d/": a directory name as tar stores it
StrDSlash == <<100, SLASH>>
\* "0-1", "2ms" and "2o1": three names that hashstr maps to one value
StrU1 == <<48, 45, 49>>
StrU2 == <<50, 109, 115>>
StrU3 == <<50, 111, 49>>
StrLong == [i \in 1..MAX_PATH |-> 112]
\* a file name of k characters
NameOfLen(k) == [i \in 1..k |-> 113]
StrP(k) == <<112, 48 + k>>

\* strlen
strlen(s) == Len(s)

\* !strcmp(a, b)
streq(a, b) == a = b

----------------------------------------------------------------------------
(* hashstr.  An unsigned is 32 bits wide; it is kept as its two 16-bit     *)
(* halves <<high, low>>, so that no intermediate value leaves the range of *)
(* the integers the model checker computes with.                           *)

Half == 2 ^ 16

RECURSIVE BitXor(_, _)
BitXor(a, b) ==
  IF a = 0 THEN b
  ELSE IF b = 0 THEN a
  ELSE (((a % 2) + (b % 2)) % 2) + 2 * BitXor(a \div 2, b \div 2)

\* ((hash << 5) + hash) ^ c, modulo 2^32
hashstep(hash, c) ==
  LET lo == hash[2] * 33
      hi == hash[1] * 33 + (lo \div Half)
  IN <<BitXor(hi % Half, c \div Half), BitXor(lo % Half, c % Half)>>

RECURSIVE hashfrom(_, _, _)
hashfrom(hash, str, i) ==
  IF i > Len(str) THEN hash
  ELSE hashfrom(hashstep(hash, str[i]), str, i + 1)

\* 5381 = 0 * 2^16 + 5381
hashstr(str) == hashfrom(<<0, 5381>>, str, 1)

----------------------------------------------------------------------------
(* The disk: what opendir and fopen find at each path.  A file carries its *)
(* bytes and, when it holds a tar archive, the archive's entries, the      *)
(* number of bytes in front of the archive and the 8-byte footer           *)
(* ("TAR\0" tag, offset) that package.c appends.                           *)

DirNode == [t |-> "dir"]
FileNode(data) ==
  [t |-> "file", data |-> data, pre |-> 0, ents |-> <<>>, foot |-> FALSE, off |-> 0]
TarNode(pre, ents, foot, off) ==
  [t |-> "file", data |-> <<>>, pre |-> pre, ents |-> ents, foot |-> foot, off |-> off]
TarEntry(name, type, data) == [name |-> name, type |-> type, data |-> data]

RoundUp(n) == ((n + MTAR_BLOCK - 1) \div MTAR_BLOCK) * MTAR_BLOCK
EntrySize(e) == MTAR_BLOCK + RoundUp(Len(e.data))

\* position of entry i relative to the start of the archive
RECURSIVE EntryPos(_, _)
EntryPos(ents, i) ==
  IF i <= 1 THEN 0 ELSE EntryPos(ents, i - 1) + EntrySize(ents[i - 1])

ArchLen(ents) == EntryPos(ents, Len(ents) + 1)

\* the archive that the packaged files e, f, g and h hold
PackedEnts ==
  <<TarEntry(StrX, MTAR_TREG, <<5>>),
    TarEntry(StrDSlash, MTAR_TDIR, <<>>),
    TarEntry(StrU1, MTAR_TREG, <<6>>),
    TarEntry(StrU2, MTAR_TREG, <<7>>)>>

\* e: 3 bytes, the archive, a footer whose offset is the archive's length
\* f: 3 bytes, the archive, a footer whose offset is the distance from the
\*    end of the file to the first byte of the archive
\* g: 3 bytes and the archive; its last 8 bytes do not start with the tag
\* h: the archive at the start of the file, then the footer of e
DiskList ==
  { <<StrA, DirNode>>,
    <<StrA \o <<SLASH>> \o StrX, FileNode(<<1>>)>>,
    <<StrA \o <<SLASH>> \o StrD, DirNode>>,
    <<StrB, DirNode>>,
    <<StrB \o <<SLASH>> \o StrX, DirNode>>,
    <<StrB \o <<SLASH>> \o StrD, FileNode(<<2>>)>>,
    <<StrC, TarNode(0, <<TarEntry(StrX, MTAR_TREG, <<3>>),
                         TarEntry(StrD, MTAR_TDIR, <<>>)>>, FALSE, 0)>>,
    <<StrN, FileNode(<<4>>)>>,
    <<StrE, TarNode(3, PackedEnts, TRUE, ArchLen(PackedEnts))>>,
    <<StrF, TarNode(3, PackedEnts, TRUE, ArchLen(PackedEnts) + FOOTER)>>,
    <<StrG, TarNode(3, PackedEnts, FALSE, 0)>>,
    <<StrH, TarNode(0, PackedEnts, TRUE, ArchLen(PackedEnts))>> }
  \cup {<<StrP(k), DirNode>> : k \in 1..(MAX_MOUNTS + 1)}

DiskPaths == {e[1] : e \in DiskList}
Disk == [p \in DiskPaths |-> (CHOOSE e \in DiskList : e[1] = p)[2]]

\* the names the callers query
Names == {StrX, StrD, StrZ}

get_file_type(filename) ==
  IF filename \in DiskPaths /\ Disk[filename].t = "dir" THEN FILESYSTEM_TDIR
  ELSE IF filename \in DiskPaths /\ Disk[filename].t = "file" THEN FILESYSTEM_TREG
  ELSE FILESYSTEM_TNONE

\* concat_path: the error code and the string written to dst
concat_path(dir, filename) ==
  IF strlen(dir) + strlen(filename) + 2 > MAX_PATH
    THEN [err |-> FILESYSTEM_EFAILURE, dst |-> <<>>]
  ELSE IF dir[strlen(dir)] = SLASH
    THEN [err |-> FILESYSTEM_ESUCCESS, dst |-> dir \o filename]
  ELSE [err |-> FILESYSTEM_ESUCCESS, dst |-> dir \o <<SLASH>> \o filename]

concat_and_get_file_type(dir, filename) ==
  LET c == concat_path(dir, filename)
  IN IF c.err # 0 THEN c.err ELSE get_file_type(c.dst)

----------------------------------------------------------------------------
(* Directory mount *)

dir_exists(mnt, filename) ==
  concat_and_get_file_type(mnt.path, filename) # FILESYSTEM_TNONE

dir_isFile(mnt, filename) ==
  concat_and_get_file_type(mnt.path, filename) = FILESYSTEM_TREG

dir_isDirectory(mnt, filename) ==
  concat_and_get_file_type(mnt.path, filename) = FILESYSTEM_TDIR

NullBuf == [ok |-> FALSE, data |-> <<>>, crash |-> FALSE]
Buf(data) == [ok |-> TRUE, data |-> data, crash |-> FALSE]

\* dir_read: the possible results, each with the number of FILE handles the
\* call leaves open.  fail is the fault injected by the environment; the
\* result of fread is not looked at, so a short read returns the buffer as
\* malloc left it.
dir_read(mnt, filename, fail) ==
  LET c == concat_path(mnt.path, filename)
  IN IF c.err # 0 THEN {[buf |-> NullBuf, fps |-> 0]}
     ELSE IF ~(c.dst \in DiskPaths /\ Disk[c.dst].t = "file") \/ fail = "open"
       THEN {[buf |-> NullBuf, fps |-> 0]}
     ELSE IF fail = "alloc" THEN {[buf |-> NullBuf, fps |-> 1]}
     ELSE IF fail = "io"
       THEN {[buf |-> Buf(d), fps |-> 1] :
               d \in {Disk[c.dst].data, [i \in 1..Len(Disk[c.dst].data) |-> 0]}}
     ELSE {[buf |-> Buf(Disk[c.dst].data), fps |-> 1]}

dir_mount(path) == get_file_type(path) = FILESYSTEM_TDIR

----------------------------------------------------------------------------
(* Tar mount.  The archive decoder (microtar) is used through              *)
(* mtar_read_header, mtar_next, mtar_seek and mtar_read_data; a header is  *)
(* readable at a file position exactly when an entry of the archive starts *)
(* there.                                                                  *)

FileLen(f) ==
  IF f.ents = <<>> THEN Len(f.data)
  ELSE f.pre + ArchLen(f.ents) + (IF f.foot THEN FOOTER ELSE 0)

\* mtar_read_header at absolute file position abs: the entry read, 0 on failure
HeaderAt(f, abs) ==
  LET hit == {i \in 1..Len(f.ents) : f.pre + EntryPos(f.ents, i) = abs}
  IN IF hit = {} THEN 0 ELSE CHOOSE i \in hit : TRUE

\* the loop of tar_mount that stores [namehash:position] pairs
RECURSIVE tar_scan(_, _, _, _)
tar_scan(f, offset, pos, map) ==
  LET i == HeaderAt(f, offset + pos)
  IN IF i = 0 THEN map
     ELSE tar_scan(f, offset, pos + EntrySize(f.ents[i]),
                   Append(map, [hash |-> hashstr(f.ents[i].name), pos |-> pos]))

\* tar_mount: the error code and the TarMount built
tar_mount(path) ==
  IF ~(path \in DiskPaths /\ Disk[path].t = "file")
    THEN [err |-> FILESYSTEM_EFAILURE]
  ELSE
    LET f == Disk[path]
        err1 == HeaderAt(f, 0) = 0
        seekok == f.off <= FileLen(f)
        offset == IF err1 /\ f.foot
                    THEN (IF seekok THEN FileLen(f) - f.off ELSE FileLen(f))
                  ELSE 0
        err2 == HeaderAt(f, offset) = 0
        map == tar_scan(f, offset, 0, <<>>)
    IN IF err1 /\ err2 THEN [err |-> FILESYSTEM_EFAILURE]
       ELSE [err |-> FILESYSTEM_ESUCCESS,
             tm |-> [file |-> path, offset |-> offset, map |-> map,
                     nfiles |-> Len(map)]]

\* strip one trailing '/'
StripSlash(name) ==
  IF Len(name) > 0 /\ name[Len(name)] = SLASH THEN SubSeq(name, 1, Len(name) - 1)
  ELSE name

\* tar_find: the error code and the header loaded
RECURSIVE tar_find_from(_, _, _, _)
tar_find_from(tm, filename, hash, i) ==
  IF i > tm.nfiles THEN [err |-> FILESYSTEM_EFAILURE]
  ELSE
    LET k == HeaderAt(Disk[tm.file], tm.offset + tm.map[i].pos)
    IN IF tm.map[i].hash = hash /\ k # 0
          /\ streq(StripSlash(Disk[tm.file].ents[k].name), filename)
         THEN [err |-> FILESYSTEM_ESUCCESS, h |-> Disk[tm.file].ents[k]]
       ELSE tar_find_from(tm, filename, hash, i + 1)

\* variant: the first entry whose hash matches is taken, the names are not
\* compared
tar_find_hash_only(tm, filename) ==
  LET hit == {i \in 1..tm.nfiles : tm.map[i].hash = hashstr(filename)}
      i == CHOOSE j \in hit : \A l \in hit : j <= l
      k == HeaderAt(Disk[tm.file], tm.offset + tm.map[i].pos)
  IN IF hit = {} \/ k = 0 THEN [err |-> FILESYSTEM_EFAILURE]
     ELSE [err |-> FILESYSTEM_ESUCCESS, h |-> Disk[tm.file].ents[k]]

tar_find(tm, filename) == tar_find_from(tm, filename, hashstr(filename), 1)

tar_exists(tm, filename) == tar_find(tm, filename).err = FILESYSTEM_ESUCCESS

tar_isFile(tm, filename) ==
  LET r == tar_find(tm, filename)
  IN IF r.err # 0 THEN FALSE ELSE r.h.type = MTAR_TREG

tar_isDirectory(tm, filename) ==
  LET r == tar_find(tm, filename)
  IN IF r.err # 0 THEN FALSE ELSE r.h.type = MTAR_TDIR

\* tar_read: the result of dmt_malloc is not checked, so a failed allocation
\* makes fread write through a null pointer
tar_read(tm, filename, fail) ==
  LET r == tar_find(tm, filename)
  IN IF r.err # 0 THEN {[buf |-> NullBuf, fps |-> 0]}
     ELSE IF fail = "alloc"
       THEN {[buf |-> [ok |-> FALSE, data |-> <<>>, crash |-> TRUE], fps |-> 0]}
     ELSE IF fail = "io" THEN {[buf |-> NullBuf, fps |-> 0]}
     ELSE {[buf |-> Buf(r.h.data), fps |-> 0]}

----------------------------------------------------------------------------
(* The mount table *)

VARIABLES
  filesystem_mounts,    \* the array of MAX_MOUNTS slots, indexed from 0
  filesystem_mountIdx,  \* the number of active mounts
  heap,                 \* the TarMount objects allocated, each with its open FILE
  fps,                  \* the FILE handles opened by dir_read and still open
  ret,                  \* the last call: operation, argument and what it returned
  prev,                 \* the operation of the call before the last
  calls,                \* the number of calls the callers still make
  pool,                 \* the paths the callers pass to mount and unmount
                        \* (besides StrLong, a path of MAX_PATH characters)
  names,                \* the file names the callers query
  longs,                \* the lengths of the long file names they query as well
  probe                 \* the arguments and the result of a call of concat_path

vars == <<filesystem_mounts, filesystem_mountIdx, heap, fps, ret, prev, calls, pool,
          names, longs, probe>>

Slots == 0..(MAX_MOUNTS - 1)
NoMount == [path |-> <<>>, kind |-> "none", udata |-> 0]

\* the calls of the function pointers of a Mount
mnt_exists(mnt, h, filename) ==
  IF mnt.kind = "dir" THEN dir_exists(mnt, filename)
  ELSE IF mnt.kind = "tar" /\ mnt.udata \in DOMAIN h
    THEN tar_exists(h[mnt.udata], filename)
  ELSE FALSE

mnt_isFile(mnt, h, filename) ==
  IF mnt.kind = "dir" THEN dir_isFile(mnt, filename)
  ELSE IF mnt.kind = "tar" /\ mnt.udata \in DOMAIN h
    THEN tar_isFile(h[mnt.udata], filename)
  ELSE FALSE

mnt_isDirectory(mnt, h, filename) ==
  IF mnt.kind = "dir" THEN dir_isDirectory(mnt, filename)
  ELSE IF mnt.kind = "tar" /\ mnt.udata \in DOMAIN h
    THEN tar_isDirectory(h[mnt.udata], filename)
  ELSE FALSE

mnt_read(mnt, h, filename, fail) ==
  IF mnt.kind = "dir" THEN dir_read(mnt, filename, fail)
  ELSE IF mnt.kind = "tar" /\ mnt.udata \in DOMAIN h
    THEN tar_read(h[mnt.udata], filename, fail)
  ELSE {[buf |-> NullBuf, fps |-> 0]}

\* variant: tar_unmount closes and frees nothing
mnt_unmount_keep(mnt, h) == [h |-> h, rel |-> <<>>]

\* mnt->unmount(mnt): the heap afterwards and the TarMounts released
mnt_unmount(mnt, h) ==
  IF mnt.kind = "tar"
    THEN [h |-> [i \in DOMAIN h \ {mnt.udata} |-> h[i]], rel |-> <<mnt.udata>>]
  ELSE [h |-> h, rel |-> <<>>]

\* dmt_calloc in tar_mount: the address of the new TarMount
NewId(h) == CHOOSE i \in 1..(MAX_MOUNTS + 1) :
              i \notin DOMAIN h /\ \A j \in 1..(i - 1) : j \in DOMAIN h

\* variant: the FILE opened and the TarMount allocated survive the failure
tar_fail_leak(h, path) ==
  IF path \in DiskPaths /\ Disk[path].t = "file"
    THEN [i \in DOMAIN h \cup {NewId(h)} |->
            IF i \in DOMAIN h THEN h[i]
            ELSE [file |-> path, offset |-> 0, map |-> <<>>, nfiles |-> 0]]
  ELSE h

\* tar_mount, "fail": fclose(fp), dmt_free(tm->map), dmt_free(tm).  The heap
\* after a tar_mount that failed: nothing the call acquired is left in it.
tar_fail(h, path) == h

Min(a, b) == IF a < b THEN a ELSE b

\* FOREACH_MOUNT(m) { if (!strcmp(m->path, path)) ... }: the slot found, -1 if none
RECURSIVE find_path(_, _, _)
find_path(m, i, path) ==
  IF i < 0 THEN -1
  ELSE IF streq(m[i].path, path) THEN i
  ELSE find_path(m, i - 1, path)

\* variant: only the newest mount is compared with the path
already_mounted_newest(m, n, path) == n > 0 /\ streq(m[n - 1].path, path)

\* variant: the scan starts one slot below the newest mount
already_mounted_skip_newest(m, n, path) == find_path(m, n - 2, path) >= 0

\* variant: the scan starts one slot above the newest mount
already_mounted_stale(m, n, path) == find_path(m, Min(n, MAX_MOUNTS - 1), path) >= 0

already_mounted(m, n, path) == find_path(m, n - 1, path) >= 0

\* variant: the comparison is > for >=
slot_full_off_by_one(n) == n > MAX_MOUNTS

slot_full(n) == n >= MAX_MOUNTS

\* variant: the slot taken is kept when both backends fail
mount_rollback_none(n) == n

\* filesystem_mount, "Fail": the slot taken is given back
mount_rollback(n) == n - 1

filesystem_mount(m, n, h, path) ==
  IF strlen(path) >= MAX_PATH
    THEN [err |-> FILESYSTEM_EFAILURE, m |-> m, n |-> n, h |-> h, tried |-> <<>>]
  ELSE IF already_mounted(m, n, path)
    THEN [err |-> FILESYSTEM_EFAILURE, m |-> m, n |-> n, h |-> h, tried |-> <<>>]
  ELSE IF slot_full(n)
    THEN [err |-> FILESYSTEM_EFAILURE, m |-> m, n |-> n, h |-> h, tried |-> <<>>]
  ELSE
    LET n1 == n + 1
        m1 == [m EXCEPT ![n].path = path]
        t == tar_mount(path)
        id == NewId(h)
    IN IF t.err = FILESYSTEM_ESUCCESS
         THEN [err |-> FILESYSTEM_ESUCCESS,
               m |-> [m1 EXCEPT ![n].kind = "tar", ![n].udata = id],
               n |-> n1,
               h |-> [i \in DOMAIN h \cup {id} |-> IF i = id THEN t.tm ELSE h[i]],
               tried |-> <<"tar">>]
       ELSE IF dir_mount(path)
         THEN [err |-> FILESYSTEM_ESUCCESS,
               m |-> [m1 EXCEPT ![n].kind = "dir", ![n].udata = 0],
               n |-> n1, h |-> tar_fail(h, path), tried |-> <<"tar", "dir">>]
       ELSE [err |-> FILESYSTEM_EFAILURE, m |-> m1, n |-> mount_rollback(n1),
             h |-> tar_fail(h, path), tried |-> <<"tar", "dir">>]

\* variant: the gap is filled with the newest mount
memmove_last(m, idx, n) ==
  [i \in Slots |-> IF i = idx THEN m[n - 1] ELSE m[i]]

\* memmove(mnt, mnt + 1, (filesystem_mountIdx - idx - 1) * sizeof(Mount))
memmove_down(m, idx, n) ==
  [i \in Slots |-> IF idx <= i /\ i < n - 1 THEN m[i + 1] ELSE m[i]]

\* variant: the scan covers every slot of the array
unmount_index_all_slots(m, n, path) == find_path(m, MAX_MOUNTS - 1, path)

unmount_index(m, n, path) == find_path(m, n - 1, path)

filesystem_unmount(m, n, h, path) ==
  LET idx == unmount_index(m, n, path)
  IN IF idx >= 0
       THEN LET u == mnt_unmount(m[idx], h)
            IN [err |-> FILESYSTEM_ESUCCESS, m |-> memmove_down(m, idx, n),
                n |-> n - 1, h |-> u.h, rel |-> u.rel, idx |-> idx]
     ELSE [err |-> FILESYSTEM_EFAILURE, m |-> m, n |-> n, h |-> h, rel |-> <<>>,
           idx |-> idx]

\* FOREACH_MOUNT(mnt) { mnt->unmount(mnt); } from slot i down
RECURSIVE unmount_all(_, _, _, _)
unmount_all(m, i, h, rel) ==
  IF i < 0 THEN [h |-> h, rel |-> rel]
  ELSE LET u == mnt_unmount(m[i], h)
       IN unmount_all(m, i - 1, u.h, rel \o u.rel)

\* variant: the count is not reset
deinit_idx_kept(n) == n

\* filesystem_mountIdx = 0
deinit_idx(n) == 0

filesystem_deinit(m, n, h) ==
  LET u == unmount_all(m, n - 1, h, <<>>)
  IN [m |-> m, n |-> deinit_idx(n), h |-> u.h, rel |-> u.rel]

RECURSIVE exists_from(_, _, _, _)
exists_from(m, h, filename, i) ==
  IF i < 0 THEN FALSE
  ELSE IF mnt_exists(m[i], h, filename) THEN TRUE
  ELSE exists_from(m, h, filename, i - 1)

filesystem_exists(m, n, h, filename) == exists_from(m, h, filename, n - 1)

RECURSIVE isFile_from(_, _, _, _)
isFile_from(m, h, filename, i) ==
  IF i < 0 THEN FALSE
  ELSE IF mnt_exists(m[i], h, filename) THEN mnt_isFile(m[i], h, filename)
  ELSE isFile_from(m, h, filename, i - 1)

filesystem_isFile(m, n, h, filename) == isFile_from(m, h, filename, n - 1)

RECURSIVE isDirectory_from(_, _, _, _)
isDirectory_from(m, h, filename, i) ==
  IF i < 0 THEN FALSE
  ELSE IF mnt_exists(m[i], h, filename) THEN mnt_isDirectory(m[i], h, filename)
  ELSE isDirectory_from(m, h, filename, i - 1)

\* variant: the first mount that classifies the name as a directory answers
filesystem_isDirectory_any(m, n, h, filename) ==
  \E i \in 0..(n - 1) : mnt_isDirectory(m[i], h, filename)

filesystem_isDirectory(m, n, h, filename) == isDirectory_from(m, h, filename, n - 1)

\* filesystem_read: the possible results (see dir_read, tar_read)
RECURSIVE read_from(_, _, _, _, _)
read_from(m, h, filename, fail, i) ==
  IF i < 0 THEN {[buf |-> NullBuf, fps |-> 0]}
  ELSE IF mnt_exists(m[i], h, filename) /\ mnt_isFile(m[i], h, filename)
    THEN mnt_read(m[i], h, filename, fail)
  ELSE read_from(m, h, filename, fail, i - 1)

\* variant: a mount whose read fails is passed over
RECURSIVE read_fallthrough_from(_, _, _, _, _)
read_fallthrough_from(m, h, filename, fail, i) ==
  IF i < 0 THEN {[buf |-> NullBuf, fps |-> 0]}
  ELSE IF /\ mnt_exists(m[i], h, filename) /\ mnt_isFile(m[i], h, filename)
          /\ \E r \in mnt_read(m[i], h, filename, fail) : r.buf.ok
    THEN mnt_read(m[i], h, filename, fail)
  ELSE read_fallthrough_from(m, h, filename, fail, i - 1)

filesystem_read_fallthrough(m, n, h, filename, fail) ==
  read_fallthrough_from(m, h, filename, fail, n - 1)

filesystem_read(m, n, h, filename, fail) == read_from(m, h, filename, fail, n - 1)

----------------------------------------------------------------------------
(* The calls *)

Faults == {"none", "open", "alloc", "io"}

\* no call of concat_path on its own has been made
NoProbe == [done |-> FALSE]

NoRet ==
  [op |-> "init", arg |-> <<>>, err |-> FILESYSTEM_ESUCCESS, b |-> FALSE,
   buf |-> NullBuf, fail |-> "none", tried |-> <<>>, rel |-> <<>>, slot |-> -1]

\* a call can be made: the callers have calls left and the process is alive
CanCall == calls > 0 /\ ~ret.buf.crash

Mount(path) ==
  /\ CanCall
  /\ LET r == filesystem_mount(filesystem_mounts, filesystem_mountIdx, heap, path)
     IN /\ filesystem_mounts' = r.m
        /\ filesystem_mountIdx' = r.n
        /\ heap' = r.h
        /\ ret' = [NoRet EXCEPT !.op = "mount", !.arg = path, !.err = r.err,
                                !.tried = r.tried]
  /\ calls' = calls - 1
  /\ prev' = ret.op
  /\ UNCHANGED <<fps, pool, names, longs, probe>>

Unmount(path) ==
  /\ CanCall
  /\ LET r == filesystem_unmount(filesystem_mounts, filesystem_mountIdx, heap, path)
     IN /\ filesystem_mounts' = r.m
        /\ filesystem_mountIdx' = r.n
        /\ heap' = r.h
        /\ ret' = [NoRet EXCEPT !.op = "unmount", !.arg = path, !.err = r.err,
                                !.rel = r.rel, !.slot = r.idx]
  /\ calls' = calls - 1
  /\ prev' = ret.op
  /\ UNCHANGED <<fps, pool, names, longs, probe>>

Deinit ==
  /\ CanCall
  /\ LET r == filesystem_deinit(filesystem_mounts, filesystem_mountIdx, heap)
     IN /\ filesystem_mounts' = r.m
        /\ filesystem_mountIdx' = r.n
        /\ heap' = r.h
        /\ ret' = [NoRet EXCEPT !.op = "deinit", !.rel = r.rel]
  /\ calls' = calls - 1
  /\ prev' = ret.op
  /\ UNCHANGED <<fps, pool, names, longs, probe>>

Exists(filename) ==
  /\ CanCall
  /\ ret' = [NoRet EXCEPT !.op = "exists", !.arg = filename,
               !.b = filesystem_exists(filesystem_mounts, filesystem_mountIdx,
                                       heap, filename)]
  /\ calls' = calls - 1
  /\ prev' = ret.op
  /\ UNCHANGED <<filesystem_mounts, filesystem_mountIdx, heap, fps, pool, names, longs, probe>>

IsFile(filename) ==
  /\ CanCall
  /\ ret' = [NoRet EXCEPT !.op = "isFile", !.arg = filename,
               !.b = filesystem_isFile(filesystem_mounts, filesystem_mountIdx,
                                       heap, filename)]
  /\ calls' = calls - 1
  /\ prev' = ret.op
  /\ UNCHANGED <<filesystem_mounts, filesystem_mountIdx, heap, fps, pool, names, longs, probe>>

IsDirectory(filename) ==
  /\ CanCall
  /\ ret' = [NoRet EXCEPT !.op = "isDirectory", !.arg = filename,
               !.b = filesystem_isDirectory(filesystem_mounts, filesystem_mountIdx,
                                            heap, filename)]
  /\ calls' = calls - 1
  /\ prev' = ret.op
  /\ UNCHANGED <<filesystem_mounts, filesystem_mountIdx, heap, fps, pool, names, longs, probe>>

Read(filename, fail) ==
  /\ CanCall
  /\ \E r \in filesystem_read(filesystem_mounts, filesystem_mountIdx, heap,
                              filename, fail) :
       /\ ret' = [NoRet EXCEPT !.op = "read", !.arg = filename, !.buf = r.buf,
                               !.fail = fail]
       /\ fps' = fps + r.fps
  /\ calls' = calls - 1
  /\ prev' = ret.op
  /\ UNCHANGED <<filesystem_mounts, filesystem_mountIdx, heap, pool, names, longs, probe>>

Next ==
  \/ \E path \in pool \cup {StrLong} : Mount(path)
  \/ \E path \in pool \cup {StrLong} : Unmount(path)
  \/ Deinit
  \/ \E filename \in names \cup {NameOfLen(k) : k \in longs} : Exists(filename)
  \/ \E filename \in names \cup {NameOfLen(k) : k \in longs} : IsFile(filename)
  \/ \E filename \in names \cup {NameOfLen(k) : k \in longs} : IsDirectory(filename)
  \/ \E filename \in names \cup {NameOfLen(k) : k \in longs}, fail \in Faults : Read(filename, fail)

\* The state at program start: static storage is zero.
Init ==
  /\ filesystem_mounts = [i \in Slots |-> NoMount]
  /\ filesystem_mountIdx = 0
  /\ heap = <<>>
  /\ fps = 0
  /\ ret = NoRet
  /\ prev = "init"
  /\ calls = MaxCalls
  /\ pool = {StrA, StrB, StrC, StrN}
  /\ names = Names
  /\ longs = {}
  /\ probe = NoProbe

Spec == Init /\ [][Next]_vars

\* The table after the directories p1 .. pk have been mounted in this order.
RECURSIVE MountedUpTo(_)
MountedUpTo(k) ==
  IF k = 0 THEN [m |-> [i \in Slots |-> NoMount], n |-> 0, h |-> <<>>]
  ELSE LET s == MountedUpTo(k - 1)
       IN filesystem_mount(s.m, s.n, s.h, StrP(k))

\* A program that has mounted all but one of the slots it may use.
InitFull ==
  /\ filesystem_mounts = MountedUpTo(MAX_MOUNTS - 1).m
  /\ filesystem_mountIdx = MountedUpTo(MAX_MOUNTS - 1).n
  /\ heap = <<>>
  /\ fps = 0
  /\ ret = NoRet
  /\ prev = "init"
  /\ calls = MaxCallsFull
  /\ pool = {StrP(k) : k \in 1..(MAX_MOUNTS + 1)}
  /\ names = Names
  /\ longs = {}
  /\ probe = NoProbe

SpecFull == InitFull /\ [][Next]_vars

\* A program whose callers mount packaged files (an executable with an
\* archive appended) and query the names stored in them.
InitTar ==
  /\ filesystem_mounts = [i \in Slots |-> NoMount]
  /\ filesystem_mountIdx = 0
  /\ heap = <<>>
  /\ fps = 0
  /\ ret = NoRet
  /\ prev = "init"
  /\ calls = MaxCallsTar
  /\ pool = {StrA, StrE, StrF, StrG, StrH}
  /\ names = {StrX, StrD, StrU1, StrU2, StrU3}
  /\ longs = {}
  /\ probe = NoProbe

SpecTar == InitTar /\ [][Next]_vars

\* A program whose callers mount directories and query, besides the short
\* names, names so long that root and name come close to MAX_PATH.
InitDir ==
  /\ filesystem_mounts = [i \in Slots |-> NoMount]
  /\ filesystem_mountIdx = 0
  /\ heap = <<>>
  /\ fps = 0
  /\ ret = NoRet
  /\ prev = "init"
  /\ calls = MaxCallsDir
  /\ pool = {StrA, StrB}
  /\ names = Names
  /\ longs = {MAX_PATH - 3, MAX_PATH - 2}
  /\ probe = NoProbe

SpecDir == InitDir /\ [][Next]_vars

----------------------------------------------------------------------------
(* concat_path on its own: a root of dirlen characters, the last one a '/'  *)
(* or not, is joined with a file name of flen characters.                  *)

RootOfLen(k, slash) == [i \in 1..k |-> IF i = k /\ slash THEN SLASH ELSE 112]

Probes ==
  [done : {FALSE}, dirlen : 1..MaxRoot, slash : BOOLEAN,
   flen : (MAX_PATH - MaxRoot - 3)..(MAX_PATH - 1),
   err : {FILESYSTEM_ESUCCESS}, len : {0}, slashes : {0}, head : {FALSE},
   tail : {FALSE}]

\* the call concat_path(dst, dir, filename), and what it left in dst
Concat ==
  /\ ~probe.done
  /\ LET dir == RootOfLen(probe.dirlen, probe.slash)
         filename == NameOfLen(probe.flen)
         c == concat_path(dir, filename)
         n == Len(c.dst)
     IN probe' = [probe EXCEPT
                    !.done = TRUE,
                    !.err = c.err,
                    !.len = n,
                    !.slashes = Cardinality({i \in 1..n : c.dst[i] = SLASH}),
                    !.head = (n >= Len(dir) /\ SubSeq(c.dst, 1, Len(dir)) = dir),
                    !.tail = (n >= Len(filename)
                              /\ SubSeq(c.dst, n - Len(filename) + 1, n) = filename)]
  /\ UNCHANGED <<filesystem_mounts, filesystem_mountIdx, heap, fps, ret, prev, calls,
                 pool, names, longs>>

NextConcat == Concat

InitConcat ==
  /\ filesystem_mounts = [i \in Slots |-> NoMount]
  /\ filesystem_mountIdx = 0
  /\ heap = <<>>
  /\ fps = 0
  /\ ret = NoRet
  /\ prev = "init"
  /\ calls = 0
  /\ pool = {}
  /\ names = {}
  /\ longs = {}
  /\ probe \in Probes

SpecConcat == InitConcat /\ [][NextConcat]_vars

----------------------------------------------------------------------------
(* The table as its callers see it *)

Active == 0..(filesystem_mountIdx - 1)

\* the active mounts, oldest first
Table == [k \in 1..filesystem_mountIdx |-> filesystem_mounts[k - 1]]

ActivePaths == {filesystem_mounts[i].path : i \in Active}

Has(i, name) == mnt_exists(filesystem_mounts[i], heap, name)
HasFile(i, name) == Has(i, name) /\ mnt_isFile(filesystem_mounts[i], heap, name)

Max(S) == CHOOSE x \in S : \A y \in S : y <= x

\* the newest active mount that reports the name, -1 if none does
Top(name) ==
  IF \E i \in Active : Has(i, name) THEN Max({i \in Active : Has(i, name)}) ELSE -1

\* the newest active mount that reports the name as a file, -1 if none does
TopFile(name) ==
  IF \E i \in Active : HasFile(i, name)
    THEN Max({i \in Active : HasFile(i, name)}) ELSE -1

\* a call has just been made (the step is not a stuttering step)
Called == calls' # calls

Queries == {"exists", "isFile", "isDirectory", "read"}

----------------------------------------------------------------------------
(* C1 *)

\* C1 (as claimed): when the newest mount B and an older mount A both hold
\* an entry at the name queried, exists, isFile, isDirectory and read return
\* what B alone returns, whatever the types of the two entries.
C1_ShadowingByNewest ==
  LET n == filesystem_mountIdx
      B == filesystem_mounts[n - 1]
      x == ret.arg
  IN (/\ ret.op \in Queries
      /\ n >= 2
      /\ Has(n - 1, x)
      /\ \E i \in 0..(n - 2) : Has(i, x))
     => /\ ret.op = "exists" => ret.b = mnt_exists(B, heap, x)
        /\ ret.op = "isFile" => ret.b = mnt_isFile(B, heap, x)
        /\ ret.op = "isDirectory" => ret.b = mnt_isDirectory(B, heap, x)
        /\ (ret.op = "read" /\ ret.fail = "none") =>
             ret.buf \in {r.buf : r \in mnt_read(B, heap, x, ret.fail)}

----------------------------------------------------------------------------
(* C2 *)

\* C2: a successful unmount(p) removes exactly the mount whose path is p:
\* the table afterwards is the table before without that one mount, the
\* others in the same order, and the size is one less.
C2_UnmountPreservesOrder ==
  [][(Called /\ ret'.op = "unmount" /\ ret'.err = FILESYSTEM_ESUCCESS)
       => /\ filesystem_mountIdx' = filesystem_mountIdx - 1
          /\ Cardinality({k \in DOMAIN Table : Table[k].path = ret'.arg}) = 1
          /\ Table' = SelectSeq(Table, LAMBDA mt : mt.path # ret'.arg)]_vars

\* a middle mount of three has been unmounted
C2_Witness ==
  /\ ret.op = "unmount"
  /\ ret.err = FILESYSTEM_ESUCCESS
  /\ ret.slot = 1
  /\ filesystem_mountIdx = 2

----------------------------------------------------------------------------
(* C3 *)

\* C3: isFile and isDirectory return the classification given by the newest
\* mount that reports the name, and false when no mount reports it.
C3_TypeResolution ==
  LET x == ret.arg
      t == Top(x)
  IN /\ ret.op = "isFile" =>
          ret.b = (t >= 0 /\ mnt_isFile(filesystem_mounts[t], heap, x))
     /\ ret.op = "isDirectory" =>
          ret.b = (t >= 0 /\ mnt_isDirectory(filesystem_mounts[t], heap, x))

\* isDirectory has answered false for a name that the newest mount holds as
\* a file and an older mount holds as a directory
C3_Witness ==
  /\ ret.op = "isDirectory"
  /\ ret.b = FALSE
  /\ filesystem_mountIdx >= 2
  /\ mnt_isFile(filesystem_mounts[filesystem_mountIdx - 1], heap, ret.arg)
  /\ \E i \in 0..(filesystem_mountIdx - 2) :
       mnt_isDirectory(filesystem_mounts[i], heap, ret.arg)

----------------------------------------------------------------------------
(* C4 *)

\* the bytes a mount holds for a file name, taken from the disk
FileBytes(mnt, name) ==
  IF mnt.kind = "dir"
    THEN Disk[concat_path(mnt.path, name).dst].data
  ELSE LET f == Disk[heap[mnt.udata].file]
           k == CHOOSE j \in 1..Len(f.ents) : StripSlash(f.ents[j].name) = name
       IN f.ents[k].data

\* C4: read returns the bytes of the newest mount that reports the name as
\* an existing file; it fails when there is no such mount; and when that
\* mount's own read fails, read fails although an older mount has the file.
C4_ReadResolution ==
  LET x == ret.arg
      t == TopFile(x)
  IN ret.op = "read" =>
       /\ t < 0 => ~ret.buf.ok
       /\ (t >= 0 /\ ret.fail = "none") =>
            ret.buf = Buf(FileBytes(filesystem_mounts[t], x))
       /\ t >= 0 =>
            ret.buf \in {r.buf : r \in mnt_read(filesystem_mounts[t], heap, x, ret.fail)}
       /\ (t >= 0 /\ \A r \in mnt_read(filesystem_mounts[t], heap, x, ret.fail) : ~r.buf.ok)
            => ~ret.buf.ok

\* a read has failed in the resolving mount while an older mount holds the
\* same name as a file
C4_Witness ==
  /\ ret.op = "read"
  /\ ~ret.buf.ok
  /\ TopFile(ret.arg) >= 1
  /\ \E i \in 0..(TopFile(ret.arg) - 1) : HasFile(i, ret.arg)

----------------------------------------------------------------------------
(* C5 *)

\* C5: no two active mounts have the same path.
C5_PathsUnique ==
  \A i \in Active : \A j \in Active :
    i # j => filesystem_mounts[i].path # filesystem_mounts[j].path

\* a mount of a path that is already mounted has been attempted, with two
\* mounts in the table
C5_Witness ==
  /\ ret.op = "mount"
  /\ ret.err = FILESYSTEM_EFAILURE
  /\ ret.arg \in ActivePaths
  /\ filesystem_mountIdx >= 2

----------------------------------------------------------------------------
(* C6 *)

\* C6: the table never holds more than MAX_MOUNTS mounts, and a mount call
\* made when it holds MAX_MOUNTS fails and leaves the table as it was.
C6_CapacityBound ==
  /\ [](filesystem_mountIdx >= 0 /\ filesystem_mountIdx <= MAX_MOUNTS)
  /\ [][(Called /\ ret'.op = "mount" /\ filesystem_mountIdx = MAX_MOUNTS)
          => /\ ret'.err = FILESYSTEM_EFAILURE
             /\ filesystem_mountIdx' = filesystem_mountIdx
             /\ Table' = Table]_vars

\* a mount of a path that is not mounted has been refused by a full table
C6_Witness ==
  /\ ret.op = "mount"
  /\ ret.err = FILESYSTEM_EFAILURE
  /\ filesystem_mountIdx = MAX_MOUNTS
  /\ ret.arg \notin ActivePaths
  /\ strlen(ret.arg) < MAX_PATH

----------------------------------------------------------------------------
(* C7 *)

\* C7: mount(p) of a path that an active mount already has fails, leaves the
\* table and the backends as they were, and constructs no backend.
C7_DuplicateRejected ==
  [][(Called /\ ret'.op = "mount" /\ ret'.arg \in ActivePaths)
       => /\ ret'.err = FILESYSTEM_EFAILURE
          /\ filesystem_mountIdx' = filesystem_mountIdx
          /\ Table' = Table
          /\ heap' = heap
          /\ ret'.tried = <<>>]_vars

\* the path of an active archive mount has been mounted again and refused
C7_Witness ==
  /\ ret.op = "mount"
  /\ ret.err = FILESYSTEM_EFAILURE
  /\ ret.tried = <<>>
  /\ \E i \in Active : /\ filesystem_mounts[i].path = ret.arg
                       /\ filesystem_mounts[i].kind = "tar"

----------------------------------------------------------------------------
(* C8 *)

\* C8: a mount call that passes the checks tries the archive backend, and
\* the directory backend only when the archive backend failed; the first
\* that succeeds becomes the newest mount; when both fail the call fails and
\* the table and the heap are as before the call.
C8_MountCommit ==
  [][(/\ Called
      /\ ret'.op = "mount"
      /\ strlen(ret'.arg) < MAX_PATH
      /\ ret'.arg \notin ActivePaths
      /\ filesystem_mountIdx < MAX_MOUNTS)
       => LET p == ret'.arg
              n == filesystem_mountIdx
              t == tar_mount(p)
          IN IF t.err = FILESYSTEM_ESUCCESS
               THEN /\ ret'.tried = <<"tar">>
                    /\ ret'.err = FILESYSTEM_ESUCCESS
                    /\ filesystem_mountIdx' = n + 1
                    /\ SubSeq(Table', 1, n) = Table
                    /\ Table'[n + 1].path = p
                    /\ Table'[n + 1].kind = "tar"
                    /\ Table'[n + 1].udata \notin DOMAIN heap
                    /\ DOMAIN heap' = DOMAIN heap \cup {Table'[n + 1].udata}
                    /\ heap'[Table'[n + 1].udata] = t.tm
                    /\ \A i \in DOMAIN heap : heap'[i] = heap[i]
             ELSE IF dir_mount(p)
               THEN /\ ret'.tried = <<"tar", "dir">>
                    /\ ret'.err = FILESYSTEM_ESUCCESS
                    /\ Table' = Append(Table, [path |-> p, kind |-> "dir", udata |-> 0])
                    /\ heap' = heap
             ELSE /\ ret'.tried = <<"tar", "dir">>
                  /\ ret'.err = FILESYSTEM_EFAILURE
                  /\ filesystem_mountIdx' = n
                  /\ Table' = Table
                  /\ heap' = heap]_vars

\* both backends have refused a path, with a mount in the table
C8_Witness ==
  /\ ret.op = "mount"
  /\ ret.err = FILESYSTEM_EFAILURE
  /\ ret.tried = <<"tar", "dir">>
  /\ filesystem_mountIdx >= 1

----------------------------------------------------------------------------
(* C9 *)

\* C9: unmount(p) of a path no active mount has fails, releases nothing and
\* leaves the table as it was.
C9_UnmountUnknown ==
  [][(Called /\ ret'.op = "unmount" /\ ret'.arg \notin ActivePaths)
       => /\ ret'.err = FILESYSTEM_EFAILURE
          /\ ret'.rel = <<>>
          /\ heap' = heap
          /\ filesystem_mountIdx' = filesystem_mountIdx
          /\ Table' = Table]_vars

\* an archive mount has been unmounted and its path unmounted once more,
\* the slot it had still holding its path
C9_Witness ==
  /\ ret.op = "unmount"
  /\ ret.err = FILESYSTEM_EFAILURE
  /\ prev = "unmount"
  /\ filesystem_mountIdx >= 1
  /\ filesystem_mounts[filesystem_mountIdx].path = ret.arg
  /\ filesystem_mounts[filesystem_mountIdx].kind = "tar"

----------------------------------------------------------------------------
(* C10 *)

\* C10: after a teardown the table is empty and every query fails; a
\* teardown that follows a teardown changes nothing and releases nothing.
C10_TeardownIdempotent ==
  /\ [](ret.op = "deinit" =>
          /\ filesystem_mountIdx = 0
          /\ \A x \in Names :
               /\ ~filesystem_exists(filesystem_mounts, filesystem_mountIdx, heap, x)
               /\ ~filesystem_isFile(filesystem_mounts, filesystem_mountIdx, heap, x)
               /\ ~filesystem_isDirectory(filesystem_mounts, filesystem_mountIdx, heap, x)
               /\ \A fail \in Faults :
                    \A r \in filesystem_read(filesystem_mounts, filesystem_mountIdx,
                                             heap, x, fail) : ~r.buf.ok)
  /\ [][(Called /\ ret.op = "deinit" /\ ret'.op = "deinit")
          => /\ UNCHANGED <<filesystem_mounts, filesystem_mountIdx, heap, fps>>
             /\ ret'.rel = <<>>]_vars

\* a teardown has followed a teardown, slot 0 having held an archive mount
C10_Witness ==
  /\ ret.op = "deinit"
  /\ prev = "deinit"
  /\ filesystem_mounts[0].kind = "tar"

----------------------------------------------------------------------------
(* C11 *)

\* a mount call that reaches the backends
Tries(path) ==
  /\ strlen(path) < MAX_PATH
  /\ path \notin ActivePaths
  /\ filesystem_mountIdx < MAX_MOUNTS

\* a file made of prefix bytes, an archive and a footer whose offset is the
\* length of the archive
PackedAsClaimed(path) ==
  /\ path \in DiskPaths
  /\ Disk[path].t = "file"
  /\ Disk[path].ents # <<>>
  /\ Disk[path].foot
  /\ Disk[path].off = ArchLen(Disk[path].ents)

\* C11 (as claimed): mounting a file made of N prefix bytes, an archive of
\* length L and a footer with the tag and offset = L succeeds as an archive
\* mount whose base offset is N, and every entry of the archive is then
\* found by its name.
C11_TrailingOffset ==
  [][(Called /\ ret'.op = "mount" /\ Tries(ret'.arg) /\ PackedAsClaimed(ret'.arg))
       => LET f == Disk[ret'.arg]
              mt == filesystem_mounts'[filesystem_mountIdx]
          IN /\ ret'.err = FILESYSTEM_ESUCCESS
             /\ mt.kind = "tar"
             /\ mt.udata \in DOMAIN heap'
             /\ heap'[mt.udata].offset = f.pre
             /\ \A k \in 1..Len(f.ents) :
                  tar_exists(heap'[mt.udata], StripSlash(f.ents[k].name))]_vars

----------------------------------------------------------------------------
(* C12 *)

\* a file with no header at its start and either no tag in its last 8 bytes
\* or no header where the footer's offset leads
NoArchiveFound(path) ==
  /\ path \in DiskPaths
  /\ Disk[path].t = "file"
  /\ HeaderAt(Disk[path], 0) = 0
  /\ \/ ~Disk[path].foot
     \/ HeaderAt(Disk[path], FileLen(Disk[path]) - Disk[path].off) = 0

\* C12: mounting a file in which no archive is found, neither at offset 0
\* nor through the footer, fails after both backends were tried, and leaves
\* no FILE and no TarMount behind: the heap and the table are as before.
C12_TrailingOffsetFailure ==
  [][(Called /\ ret'.op = "mount" /\ Tries(ret'.arg) /\ NoArchiveFound(ret'.arg))
       => /\ ret'.err = FILESYSTEM_EFAILURE
          /\ ret'.tried = <<"tar", "dir">>
          /\ heap' = heap
          /\ filesystem_mountIdx' = filesystem_mountIdx
          /\ Table' = Table]_vars

\* a file with prefix bytes and an archive but no tag has been refused
\* while another archive is mounted
C12_Witness ==
  /\ ret.op = "mount"
  /\ ret.err = FILESYSTEM_EFAILURE
  /\ ret.arg \in DiskPaths
  /\ Disk[ret.arg].t = "file"
  /\ Disk[ret.arg].ents # <<>>
  /\ Disk[ret.arg].pre > 0
  /\ ~Disk[ret.arg].foot
  /\ DOMAIN heap # {}

----------------------------------------------------------------------------
(* C13 *)

\* the entries of the archive of tm that are stored under the name
Stored(tm, name) ==
  {k \in 1..Len(Disk[tm.file].ents) : Disk[tm.file].ents[k].name = name}

\* the index of tm holds two entries of different names and one hash, and q
\* has that hash too
Colliding(tm, q) ==
  \E j, k \in 1..Len(Disk[tm.file].ents) :
    /\ Disk[tm.file].ents[j].name # Disk[tm.file].ents[k].name
    /\ hashstr(Disk[tm.file].ents[j].name) = hashstr(Disk[tm.file].ents[k].name)
    /\ hashstr(q) = hashstr(Disk[tm.file].ents[j].name)
    /\ \E a, b \in 1..tm.nfiles :
         a # b /\ tm.map[a].hash = hashstr(q) /\ tm.map[b].hash = hashstr(q)

\* C13: in an archive mount that holds two entries whose names differ but
\* hash to one value, a query for a name with that hash finds the entry
\* stored under exactly that name (its type and its data), and finds nothing
\* when no entry is stored under it.
C13_HashCollision ==
  /\ \A id \in DOMAIN heap : \A q \in names :
       Colliding(heap[id], q) =>
         IF Stored(heap[id], q) = {}
           THEN /\ tar_find(heap[id], q).err = FILESYSTEM_EFAILURE
                /\ ~tar_exists(heap[id], q)
         ELSE LET e == Disk[heap[id].file].ents[CHOOSE k \in Stored(heap[id], q) : TRUE]
              IN /\ tar_find(heap[id], q) = [err |-> FILESYSTEM_ESUCCESS, h |-> e]
                 /\ tar_isFile(heap[id], q) = (e.type = MTAR_TREG)
                 /\ tar_isDirectory(heap[id], q) = (e.type = MTAR_TDIR)
                 /\ tar_read(heap[id], q, "none") = {[buf |-> Buf(e.data), fps |-> 0]}
  /\ (/\ ret.op \in Queries
      /\ filesystem_mountIdx = 1
      /\ filesystem_mounts[0].kind = "tar"
      /\ Colliding(heap[filesystem_mounts[0].udata], ret.arg))
     => LET tm == heap[filesystem_mounts[0].udata]
            st == Stored(tm, ret.arg)
            e == Disk[tm.file].ents[CHOOSE k \in st : TRUE]
        IN /\ ret.op = "exists" => ret.b = (st # {})
           /\ ret.op = "isFile" => ret.b = (st # {} /\ e.type = MTAR_TREG)
           /\ ret.op = "isDirectory" => ret.b = (st # {} /\ e.type = MTAR_TDIR)
           /\ (ret.op = "read" /\ ret.fail = "none") =>
                ret.buf = (IF st # {} /\ e.type = MTAR_TREG THEN Buf(e.data)
                           ELSE NullBuf)

\* the second of two entries with one hash has been read from an archive
\* mount, and its own bytes returned
C13_Witness ==
  /\ ret.op = "read"
  /\ ret.fail = "none"
  /\ filesystem_mountIdx = 1
  /\ filesystem_mounts[0].kind = "tar"
  /\ Colliding(heap[filesystem_mounts[0].udata], ret.arg)
  /\ \E k \in Stored(heap[filesystem_mounts[0].udata], ret.arg) :
       /\ k > 1
       /\ \E j \in 1..(k - 1) :
            hashstr(Disk[heap[filesystem_mounts[0].udata].file].ents[j].name)
              = hashstr(ret.arg)
       /\ ret.buf = Buf(Disk[heap[filesystem_mounts[0].udata].file].ents[k].data)

----------------------------------------------------------------------------
(* C14 *)

\* C14 (as claimed): an entry that the mount-time scan enumerated is found
\* by its name without the trailing '/': when the newest mount is an archive
\* that stores the name queried, with or without a trailing '/', exists is
\* true, and isDirectory is true when the entry is a directory.
C14_DirNameNormalised ==
  (/\ ret.op \in {"exists", "isDirectory"}
   /\ filesystem_mountIdx >= 1
   /\ filesystem_mounts[filesystem_mountIdx - 1].kind = "tar")
  => LET tm == heap[filesystem_mounts[filesystem_mountIdx - 1].udata]
         ents == Disk[tm.file].ents
     IN \A k \in 1..Len(ents) :
          (/\ tm.nfiles = Len(ents)
           /\ StripSlash(ents[k].name) = ret.arg
           /\ ret.op = "isDirectory" => ents[k].type = MTAR_TDIR)
          => ret.b = TRUE

----------------------------------------------------------------------------
(* C15 *)

\* root and file name, joined with one '/' between them, and the
\* terminator do not fit in MAX_PATH bytes
Overflows(root, filename) ==
  strlen(root) + (IF root[strlen(root)] = SLASH THEN 0 ELSE 1) + strlen(filename) + 1
    > MAX_PATH

\* C15 (as claimed): a query for a name that overflows the path bound with
\* the root of every active mount, all of them directory mounts, is
\* answered false by exists, isFile and isDirectory, and read fails.
C15_PathOverflow ==
  (/\ ret.op \in Queries
   /\ filesystem_mountIdx >= 1
   /\ \A i \in Active : /\ filesystem_mounts[i].kind = "dir"
                        /\ Overflows(filesystem_mounts[i].path, ret.arg))
  => /\ ret.op \in {"exists", "isFile", "isDirectory"} => ret.b = FALSE
     /\ ret.op = "read" => ~ret.buf.ok

----------------------------------------------------------------------------
(* C16 *)

\* C16 (as claimed): a read leaves as many FILE handles open as there were
\* before it, whether it succeeds or fails.
C16_NoHandleHeld ==
  [][(Called /\ ret'.op = "read") => fps' = fps]_vars

----------------------------------------------------------------------------
(* C17 *)

ActiveTar == {i \in Active : filesystem_mounts[i].kind = "tar"}

\* C17: the TarMounts allocated (each with its open FILE) are exactly those
\* of the active archive mounts, one each; a successful unmount releases the
\* TarMount of the mount removed and no other; a teardown releases every
\* TarMount once and leaves none.
C17_ArchiveOwnership ==
  /\ [](/\ DOMAIN heap = {filesystem_mounts[i].udata : i \in ActiveTar}
        /\ \A i \in ActiveTar : \A j \in ActiveTar :
             i # j => filesystem_mounts[i].udata # filesystem_mounts[j].udata
        /\ \A i \in ActiveTar :
             heap[filesystem_mounts[i].udata].file = filesystem_mounts[i].path)
  /\ [][(Called /\ ret'.op = "unmount" /\ ret'.err = FILESYSTEM_ESUCCESS)
          => LET mt == filesystem_mounts[CHOOSE i \in Active :
                                           filesystem_mounts[i].path = ret'.arg]
             IN IF mt.kind = "tar"
                  THEN /\ ret'.rel = <<mt.udata>>
                       /\ DOMAIN heap' = DOMAIN heap \ {mt.udata}
                       /\ \A id \in DOMAIN heap' : heap'[id] = heap[id]
                ELSE /\ ret'.rel = <<>>
                     /\ heap' = heap]_vars
  /\ [][(Called /\ ret'.op = "deinit")
          => /\ heap' = <<>>
             /\ Len(ret'.rel) = Cardinality(DOMAIN heap)
             /\ {ret'.rel[k] : k \in 1..Len(ret'.rel)} = DOMAIN heap]_vars

\* a teardown, made when the callers had one call left at most, has
\* released the TarMounts of two archive mounts
C17_Witness ==
  /\ ret.op = "deinit"
  /\ Len(ret.rel) = 2
  /\ heap = <<>>
  /\ calls <= 1

----------------------------------------------------------------------------
(* C18 *)

\* C18 (as claimed): concat_path succeeds exactly when root, a '/' if the
\* root does not end in one, the file name and the terminator fit in
\* MAX_PATH bytes, and then dst is the root, that '/' and the file name.
C18_ConcatBoundary ==
  probe.done =>
    LET sep == IF probe.slash THEN 0 ELSE 1
        fits == probe.dirlen + sep + probe.flen + 1 <= MAX_PATH
    IN /\ (probe.err = FILESYSTEM_ESUCCESS) = fits
       /\ probe.err = FILESYSTEM_ESUCCESS =>
            /\ probe.len = probe.dirlen + sep + probe.flen
            /\ probe.slashes = 1
            /\ probe.head
            /\ probe.tail

----------------------------------------------------------------------------
(* C19 *)

\* C19 (as claimed): when read returns a buffer for a name, isFile and
\* exists are true of that name in the same state; when isDirectory is true
\* of a name, read of it fails.
C19_CrossQuery ==
  ret.op = "read" =>
    /\ ret.buf.ok =>
         /\ filesystem_isFile(filesystem_mounts, filesystem_mountIdx, heap, ret.arg)
         /\ filesystem_exists(filesystem_mounts, filesystem_mountIdx, heap, ret.arg)
    /\ filesystem_isDirectory(filesystem_mounts, filesystem_mountIdx, heap, ret.arg)
         => ~ret.buf.ok

----------------------------------------------------------------------------
(* C20 *)

\* the array with every slot that holds no active mount blanked
Blanked == [i \in Slots |-> IF i \in Active THEN filesystem_mounts[i] ELSE NoMount]

\* C20: a mount(p) that follows a successful unmount(p) or a teardown is not
\* refused as a duplicate, and when it succeeds p is the newest mount; an
\* unmount(p) that follows a successful unmount(p) fails; and every query is
\* answered as if the slots outside the active ones were blank.
C20_NoStaleSlots ==
  /\ [][(/\ Called
         /\ ret'.op = "mount"
         /\ \/ ret.op = "unmount" /\ ret.err = FILESYSTEM_ESUCCESS /\ ret.arg = ret'.arg
            \/ ret.op = "deinit"
         /\ strlen(ret'.arg) < MAX_PATH
         /\ filesystem_mountIdx < MAX_MOUNTS)
          => /\ ret'.tried # <<>>
             /\ ret'.err = FILESYSTEM_ESUCCESS =>
                  /\ filesystem_mountIdx' = filesystem_mountIdx + 1
                  /\ filesystem_mounts'[filesystem_mountIdx].path = ret'.arg
                  /\ SubSeq(Table', 1, filesystem_mountIdx) = Table]_vars
  /\ [][(/\ Called
         /\ ret'.op = "unmount"
         /\ ret.op = "unmount" /\ ret.err = FILESYSTEM_ESUCCESS /\ ret.arg = ret'.arg)
          => /\ ret'.err = FILESYSTEM_EFAILURE
             /\ Table' = Table]_vars
  /\ [](/\ ret.op = "exists" =>
             ret.b = filesystem_exists(Blanked, filesystem_mountIdx, heap, ret.arg)
        /\ ret.op = "isFile" =>
             ret.b = filesystem_isFile(Blanked, filesystem_mountIdx, heap, ret.arg)
        /\ ret.op = "isDirectory" =>
             ret.b = filesystem_isDirectory(Blanked, filesystem_mountIdx, heap, ret.arg)
        /\ ret.op = "read" =>
             ret.buf \in {r.buf : r \in filesystem_read(Blanked, filesystem_mountIdx,
                                                        heap, ret.arg, ret.fail)})

\* a is mounted again after b was mounted and a unmounted: a is the newest
\* of two mounts, above b
C20_Witness ==
  /\ ret.op = "mount"
  /\ ret.err = FILESYSTEM_ESUCCESS
  /\ prev = "unmount"
  /\ calls = MaxCalls - 4
  /\ filesystem_mountIdx = 2
  /\ filesystem_mounts[0].path = StrB
  /\ filesystem_mounts[1].path = StrA
  /\ ret.arg = StrA

====
